---- MODULE Spec2Model ----
(***************************************************************************)
(* Cover Crop Selection (src/app.py): a Streamlit page.  Every user        *)
(* interaction re-runs the script top to bottom; st.session_state and the  *)
(* widget values survive between runs, everything else is rebuilt.         *)
(*                                                                         *)
(* Text is modelled as a sequence of one-character strings so that         *)
(* splitting, stripping, joining, regular-expression search and quoting    *)
(* are computed character by character.                                    *)
(***************************************************************************)
EXTENDS Naturals, Sequences, FiniteSets

(***************************************************************************)
(* Bounds of the model.                                                    *)
(***************************************************************************)
MaxRows == 2
MaxFieldLen == 1
NumGoals == 2
MaxTextLen == 1
MaxPick == 2

(***************************************************************************)
(* Generic text helpers.                                                   *)
(***************************************************************************)
Strings(S, n) == UNION {[1..k -> S] : k \in 0..n}

Range(s) == {s[i] : i \in 1..Len(s)}

SeqsNoDup(S, n) == {s \in Strings(S, n) : \A i, j \in 1..Len(s) : i # j => s[i] # s[j]}

DropAt(s, i) == [j \in 1..(Len(s) - 1) |-> IF j < i THEN s[j] ELSE s[j + 1]]

\* str.split(sep) for a one-character separator: always at least one piece.
RECURSIVE Split(_, _)
Split(s, sep) ==
    IF \A i \in 1..Len(s) : s[i] # sep
    THEN <<s>>
    ELSE LET k == CHOOSE i \in 1..Len(s) : s[i] = sep /\ \A j \in 1..(i - 1) : s[j] # sep
         IN  <<SubSeq(s, 1, k - 1)>> \o Split(SubSeq(s, k + 1, Len(s)), sep)

\* str.strip(): leading and trailing blanks removed.
RECURSIVE Strip(_)
Strip(s) ==
    IF s = <<>> THEN s
    ELSE IF Head(s) = " " THEN Strip(Tail(s))
    ELSE IF s[Len(s)] = " " THEN Strip(SubSeq(s, 1, Len(s) - 1))
    ELSE s

\* sep.join(parts)
RECURSIVE Join(_, _)
Join(parts, sep) ==
    IF parts = <<>> THEN <<>>
    ELSE IF Len(parts) = 1 THEN Head(parts)
    ELSE Head(parts) \o <<sep>> \o Join(Tail(parts), sep)

(***************************************************************************)
(* The loaded table (df) and the option lists built from it.               *)
(***************************************************************************)
goal_columns ==
    << "Cashcrop compatibility", "Erosion fighter", "Good grazing",
       "Grain harvest", "Lasting residue", "Mechanical forage",
       "Nitrogen source", "Quick growth", "Soil builder", "Weed fighter" >>

\* The goal columns the model lets the table vary in and the user pick from.
GoalsInPlay == {goal_columns[i] : i \in 1..NumGoals}

FlagValues == {"Yes", "No"}

\* Characters of a 'Target Cash Crops' cell: letters in both cases, the
\* separator, a blank, and two characters the regex engine treats specially.
FieldChars == {"a", "A", ".", "(", ",", " "}

\* A cell read by read_csv is never the empty string (that would be NaN).
CropFields == Strings(FieldChars, MaxFieldLen) \ {<<>>}

RowValues == [flags : [GoalsInPlay -> FlagValues], crops : CropFields]

\* A table: rows carry their pandas index label idx = position at load.
Tables ==
    UNION {{[i \in 1..n |-> [idx |-> i, flags |-> f[i].flags, crops |-> f[i].crops]] :
               f \in [1..n -> RowValues]} : n \in 0..MaxRows}

cash_crops(t) ==
    UNION {{Strip(p) : p \in Range(Split(t[i].crops, ","))} : i \in 1..Len(t)}

cash_crop_options(t) == cash_crops(t)

(***************************************************************************)
(* Series.str.contains(pat, case=False): regex=True is the default, so pat *)
(* is compiled as a regular expression and searched case-insensitively.    *)
(* The fragment covered: literals, '.', '|' and an unbalanced '('.         *)
(***************************************************************************)
Lower(c) == IF c = "A" THEN "a" ELSE c

\* re.compile raises re.error on an unterminated group.
RegexCompileFails(pat) == "(" \in Range(pat)

AltMatchesAt(alt, s, i) ==
    /\ i + Len(alt) - 1 <= Len(s)
    /\ \A j \in 1..Len(alt) : alt[j] = "." \/ Lower(alt[j]) = Lower(s[i + j - 1])

RegexSearch(pat, s) ==
    \E a \in Range(Split(pat, "|")) : \E i \in 1..(Len(s) + 1) : AltMatchesAt(a, s, i)

StrContains(s, pat) == RegexSearch(pat, s)

(***************************************************************************)
(* The filter block of the button handler.                                 *)
(***************************************************************************)
\* frame[mask]: the rows whose mask entry is true, index labels and order kept.
RECURSIVE MaskRowsReversed(_, _)
MaskRowsReversed(rows, mask) ==
    IF rows = <<>> THEN <<>>
    ELSE MaskRowsReversed(Tail(rows), Tail(mask)) \o (IF Head(mask) THEN <<Head(rows)>> ELSE <<>>)

RECURSIVE MaskRows(_, _)
MaskRows(rows, mask) ==
    IF rows = <<>> THEN <<>>
    ELSE (IF Head(mask) THEN <<Head(rows)>> ELSE <<>>) \o MaskRows(Tail(rows), Tail(mask))

\* filtered[goal] == 'Yes'
GoalMask(rows, goal) == [i \in 1..Len(rows) |-> rows[i].flags[goal] = "Yes"]

\* for goal in selected_goals: filtered = filtered[filtered[goal] == 'Yes']
RECURSIVE FilterGoals(_, _)
FilterGoals(rows, goals) ==
    IF goals = <<>> THEN rows
    ELSE FilterGoals(MaskRows(rows, GoalMask(rows, Head(goals))), Tail(goals))

crop_pattern(crops) == Join([i \in 1..Len(crops) |-> Strip(crops[i])], "|")

CropMask(rows, pat) == [i \in 1..Len(rows) |-> StrContains(rows[i].crops, pat)]

FilterRaises(crops) == RegexCompileFails(crop_pattern(crops))

FilterEngine(t, goals, crops) ==
    LET byGoals == FilterGoals(t, goals)
    IN  MaskRows(byGoals, CropMask(byGoals, crop_pattern(crops)))

\* filtered = df.copy(): the filter works on a copy, df itself is untouched.
TableAfterFilterInPlace(t, result) == result

TableAfterFilter(t, result) == t

(***************************************************************************)
(* The completion service: an opaque call that returns a text or raises.   *)
(***************************************************************************)
\* Characters of a reply: a letter, both quotes, a backslash, and the
\* character run "</script>" taken as one symbol.
TextChars == {"t", "'", "\"", "\\", "</script>"}

Texts == Strings(TextChars, MaxTextLen)

Faults == {"rate limit exceeded", "connection refused"}

NoReply == [kind |-> "none", text |-> <<>>, fault |-> ""]

Replies ==
    {[kind |-> "text", text |-> x, fault |-> ""] : x \in Texts}
        \cup {[kind |-> "fault", text |-> <<>>, fault |-> f] : f \in Faults}

(***************************************************************************)
(* The replay block: the stored text is written with !r (repr) into a      *)
(* script element, which the browser tokenises and runs.                   *)
(***************************************************************************)
\* repr() of a str: double quotes only when the text holds ' and no ".
ReprQuote(x) == IF "'" \in Range(x) /\ "\"" \notin Range(x) THEN "\"" ELSE "'"

RECURSIVE ReprBody(_, _)
ReprBody(x, q) ==
    IF x = <<>> THEN <<>>
    ELSE (IF Head(x) = "\\" \/ Head(x) = q THEN <<"\\", Head(x)>> ELSE <<Head(x)>>)
             \o ReprBody(Tail(x), q)

PyRepr(x) == <<ReprQuote(x)>> \o ReprBody(x, ReprQuote(x)) \o <<ReprQuote(x)>>

UtterOpen == "var msg = new SpeechSynthesisUtterance("

UtterSpeak == "); window.speechSynthesis.speak(msg);"

SpeechHtml(x) == <<"<script>", UtterOpen>> \o PyRepr(x) \o <<UtterSpeak, "</script>">>

\* The HTML tokeniser ends a script element at the first "</script>",
\* wherever it stands in the script's text.
ScriptContent(page) ==
    LET k == CHOOSE i \in 2..Len(page) :
                 page[i] = "</script>" /\ \A j \in 2..(i - 1) : page[j] # "</script>"
    IN  SubSeq(page, 2, k - 1)

\* Position of the quote closing a JavaScript string literal opened with q,
\* scanning from i; 0 when the literal is not closed.
RECURSIVE LiteralEnd(_, _, _)
LiteralEnd(lit, i, q) ==
    IF i > Len(lit) THEN 0
    ELSE IF lit[i] = "\\" THEN LiteralEnd(lit, i + 2, q)
    ELSE IF lit[i] = q THEN i
    ELSE LiteralEnd(lit, i + 1, q)

RECURSIVE JsUnescape(_)
JsUnescape(body) ==
    IF body = <<>> THEN <<>>
    ELSE IF Head(body) = "\\" /\ Len(body) >= 2
         THEN <<body[2]>> \o JsUnescape(SubSeq(body, 3, Len(body)))
         ELSE <<Head(body)>> \o JsUnescape(Tail(body))

NoSpeech == [said |-> FALSE, text |-> <<>>]

\* Running the script: a syntax error (a literal that is not closed where
\* the call expects it) runs nothing; otherwise the literal's value is spoken.
JsRun(script) ==
    LET n   == Len(script)
        lit == SubSeq(script, 2, n - 1)
    IN  IF /\ n >= 4
           /\ script[1] = UtterOpen
           /\ script[n] = UtterSpeak
           /\ lit[1] \in {"'", "\""}
           /\ LiteralEnd(lit, 2, lit[1]) = Len(lit)
        THEN [said |-> TRUE, text |-> JsUnescape(SubSeq(lit, 2, Len(lit) - 1))]
        ELSE NoSpeech

Speak(x) == JsRun(ScriptContent(SpeechHtml(x)))

(***************************************************************************)
(* State.                                                                  *)
(***************************************************************************)
VARIABLES
    df,                  \* the loaded table
    df0,                 \* the table as read at startup (never assigned again)
    selected_goals,      \* value of the goals multiselect
    selected_cash_crops, \* value of the cash-crops multiselect
    ai_response,         \* st.session_state.ai_response
    last_action,         \* what triggered the last script run
    outcome,             \* which branch of the button handler the run took
    filter_done,         \* the filter block ran to its end in the last run
    filtered,            \* its result
    dataframe,           \* rows shown by st.dataframe in the last run
    message,             \* the last message the handler displayed
    service_calls,       \* calls of the completion service in the last run
    service_reply,       \* what the service answered in the last run
    replay_offered,      \* the replay button was rendered in the last run
    spoken               \* what the replay script spoke in the last run

vars ==
    << df, df0, selected_goals, selected_cash_crops, ai_response, last_action,
       outcome, filter_done, filtered, dataframe, message, service_calls,
       service_reply, replay_offered, spoken >>

NoMessage == [level |-> "none", text |-> <<>>]

WarningMessage ==
    [level |-> "warning",
     text |-> <<"Please select at least one goal and one or more cash crops.">>]

NoMatchMessage == [level |-> "error", text |-> <<"No matching cover crops found.">>]

ErrorMessage(f) == [level |-> "error", text |-> <<"AI Error: ", f>>]

WriteMessage(x) == [level |-> "write", text |-> x]

ExceptionMessage == [level |-> "exception", text |-> <<"re.error">>]

(***************************************************************************)
(* Pieces of the script that decide the branches.                          *)
(***************************************************************************)
\* if "ai_response" not in st.session_state: ... = ""  (kept once it exists)
SessionStateReset(resp) == <<>>

SessionState(resp) == resp

\* if not selected_goals or not selected_cash_crops
InputsMissingBoth(goals, crops) == goals = <<>> /\ crops = <<>>

InputsMissing(goals, crops) == goals = <<>> \/ crops = <<>>

\* if filtered.empty
FrameEmptyNever(rows) == FALSE

FrameEmpty(rows) == rows = <<>>

\* try: st.session_state.ai_response = get_ai_summary(...)
ResponseOnSuccess(resp, x) == x

\* except Exception as e: st.error(...)  -- no assignment to the slot
ResponseOnFaultCleared(resp, f) == <<>>

ResponseOnFault(resp, f) == resp

\* if st.session_state.ai_response:
ReplayOffered(resp) == resp # <<>>

(***************************************************************************)
(* Init: the state after the first run of the script.                      *)
(***************************************************************************)
Init ==
    /\ df \in Tables
    /\ df0 = df
    /\ selected_goals = <<>>
    /\ selected_cash_crops = <<>>
    /\ ai_response = <<>>
    /\ last_action = "start"
    /\ outcome = "none"
    /\ filter_done = FALSE
    /\ filtered = <<>>
    /\ dataframe = <<>>
    /\ message = NoMessage
    /\ service_calls = 0
    /\ service_reply = NoReply
    /\ replay_offered = FALSE
    /\ spoken = NoSpeech

\* A run in which neither button is pressed: only the widgets are drawn.
RerunIdle ==
    /\ ai_response' = SessionState(ai_response)
    /\ outcome' = "none"
    /\ filter_done' = FALSE
    /\ filtered' = <<>>
    /\ dataframe' = <<>>
    /\ message' = NoMessage
    /\ service_calls' = 0
    /\ service_reply' = NoReply
    /\ replay_offered' = ReplayOffered(SessionState(ai_response))
    /\ spoken' = NoSpeech
    /\ UNCHANGED <<df, df0>>

AddGoal(g) ==
    /\ g \notin Range(selected_goals)
    /\ selected_goals' = Append(selected_goals, g)
    /\ last_action' = "select"
    /\ UNCHANGED selected_cash_crops
    /\ RerunIdle

RemoveGoal(i) ==
    /\ i \in 1..Len(selected_goals)
    /\ selected_goals' = DropAt(selected_goals, i)
    /\ last_action' = "select"
    /\ UNCHANGED selected_cash_crops
    /\ RerunIdle

AddCrop(c) ==
    /\ c \notin Range(selected_cash_crops)
    /\ Len(selected_cash_crops) < MaxPick
    /\ selected_cash_crops' = Append(selected_cash_crops, c)
    /\ last_action' = "select"
    /\ UNCHANGED selected_goals
    /\ RerunIdle

RemoveCrop(i) ==
    /\ i \in 1..Len(selected_cash_crops)
    /\ selected_cash_crops' = DropAt(selected_cash_crops, i)
    /\ last_action' = "select"
    /\ UNCHANGED selected_goals
    /\ RerunIdle

(***************************************************************************)
(* if st.button("Get Cover Crop Recommendations"): one run of the script   *)
(* with the button pressed.  Each definition below is one path through the *)
(* handler, up to the end of the run.                                      *)
(***************************************************************************)
RecommendCommon ==
    /\ last_action' = "recommend"
    /\ spoken' = NoSpeech
    /\ UNCHANGED <<df0, selected_goals, selected_cash_crops>>

\* st.warning(...): nothing else runs.
RecommendWarning ==
    /\ InputsMissing(selected_goals, selected_cash_crops)
    /\ RecommendCommon
    /\ outcome' = "warning"
    /\ message' = WarningMessage
    /\ filter_done' = FALSE
    /\ filtered' = <<>>
    /\ dataframe' = <<>>
    /\ service_calls' = 0
    /\ service_reply' = NoReply
    /\ ai_response' = SessionState(ai_response)
    /\ replay_offered' = ReplayOffered(SessionState(ai_response))
    /\ UNCHANGED df

\* str.contains raises while compiling crop_pattern: the exception is not
\* caught, the run ends there and the rest of the page is not drawn.
RecommendException ==
    /\ ~InputsMissing(selected_goals, selected_cash_crops)
    /\ FilterRaises(selected_cash_crops)
    /\ RecommendCommon
    /\ outcome' = "exception"
    /\ message' = ExceptionMessage
    /\ filter_done' = FALSE
    /\ filtered' = <<>>
    /\ dataframe' = <<>>
    /\ service_calls' = 0
    /\ service_reply' = NoReply
    /\ ai_response' = SessionState(ai_response)
    /\ replay_offered' = FALSE
    /\ df' = TableAfterFilter(df, FilterGoals(df, selected_goals))

\* st.error("No matching cover crops found.")
RecommendNoMatch ==
    /\ ~InputsMissing(selected_goals, selected_cash_crops)
    /\ ~FilterRaises(selected_cash_crops)
    /\ LET result == FilterEngine(df, selected_goals, selected_cash_crops)
       IN  /\ FrameEmpty(result)
           /\ RecommendCommon
           /\ outcome' = "nomatch"
           /\ message' = NoMatchMessage
           /\ filter_done' = TRUE
           /\ filtered' = result
           /\ dataframe' = <<>>
           /\ service_calls' = 0
           /\ service_reply' = NoReply
           /\ ai_response' = SessionState(ai_response)
           /\ replay_offered' = ReplayOffered(SessionState(ai_response))
           /\ df' = TableAfterFilter(df, result)

\* The rows are shown, the service is called once and answers with a text.
RecommendText(x) ==
    /\ ~InputsMissing(selected_goals, selected_cash_crops)
    /\ ~FilterRaises(selected_cash_crops)
    /\ LET result == FilterEngine(df, selected_goals, selected_cash_crops)
           resp   == ResponseOnSuccess(SessionState(ai_response), x)
       IN  /\ ~FrameEmpty(result)
           /\ RecommendCommon
           /\ outcome' = "text"
           /\ message' = WriteMessage(resp)
           /\ filter_done' = TRUE
           /\ filtered' = result
           /\ dataframe' = result
           /\ service_calls' = 1
           /\ service_reply' = [kind |-> "text", text |-> x, fault |-> ""]
           /\ ai_response' = resp
           /\ replay_offered' = ReplayOffered(resp)
           /\ df' = TableAfterFilter(df, result)

\* The rows are shown, the service is called once and raises.
RecommendFault(f) ==
    /\ ~InputsMissing(selected_goals, selected_cash_crops)
    /\ ~FilterRaises(selected_cash_crops)
    /\ LET result == FilterEngine(df, selected_goals, selected_cash_crops)
           resp   == ResponseOnFault(SessionState(ai_response), f)
       IN  /\ ~FrameEmpty(result)
           /\ RecommendCommon
           /\ outcome' = "error"
           /\ message' = ErrorMessage(f)
           /\ filter_done' = TRUE
           /\ filtered' = result
           /\ dataframe' = result
           /\ service_calls' = 1
           /\ service_reply' = [kind |-> "fault", text |-> <<>>, fault |-> f]
           /\ ai_response' = resp
           /\ replay_offered' = ReplayOffered(resp)
           /\ df' = TableAfterFilter(df, result)

GetRecommendations ==
    \/ RecommendWarning
    \/ RecommendException
    \/ RecommendNoMatch
    \/ \E x \in Texts : RecommendText(x)
    \/ \E f \in Faults : RecommendFault(f)

(***************************************************************************)
(* if st.button("Speak Recommendation Again"): a run with the replay       *)
(* button pressed; it can be pressed only where the last run drew it.      *)
(***************************************************************************)
Replay ==
    /\ replay_offered
    /\ last_action' = "replay"
    /\ ai_response' = SessionState(ai_response)
    /\ outcome' = "none"
    /\ filter_done' = FALSE
    /\ filtered' = <<>>
    /\ dataframe' = <<>>
    /\ message' = NoMessage
    /\ service_calls' = 0
    /\ service_reply' = NoReply
    /\ replay_offered' = ReplayOffered(SessionState(ai_response))
    /\ spoken' = IF ReplayOffered(SessionState(ai_response))
                 THEN Speak(SessionState(ai_response))
                 ELSE NoSpeech
    /\ UNCHANGED <<df, df0, selected_goals, selected_cash_crops>>

Next ==
    \/ \E g \in GoalsInPlay : AddGoal(g)
    \/ \E i \in 1..NumGoals : RemoveGoal(i)
    \/ \E c \in cash_crop_options(df) : AddCrop(c)
    \/ \E i \in 1..MaxPick : RemoveCrop(i)
    \/ GetRecommendations
    \/ Replay

Spec == Init /\ [][Next]_vars

(***************************************************************************)
(* The filter block on its own, run on any selections (the guard of the    *)
(* button handler left out).                                               *)
(***************************************************************************)
RunFilter(goals, crops) ==
    /\ last_action = "start"
    /\ last_action' = "filter"
    /\ selected_goals' = goals
    /\ selected_cash_crops' = crops
    /\ IF FilterRaises(crops)
       THEN /\ outcome' = "exception"
            /\ filter_done' = FALSE
            /\ filtered' = <<>>
            /\ df' = TableAfterFilter(df, FilterGoals(df, goals))
       ELSE /\ outcome' = "none"
            /\ filter_done' = TRUE
            /\ filtered' = FilterEngine(df, goals, crops)
            /\ df' = TableAfterFilter(df, FilterEngine(df, goals, crops))
    /\ UNCHANGED <<df0, ai_response, dataframe, message, service_calls,
                   service_reply, replay_offered, spoken>>

NextFilter ==
    \E goals \in SeqsNoDup(GoalsInPlay, NumGoals) :
        \E crops \in SeqsNoDup(cash_crop_options(df), MaxPick) : RunFilter(goals, crops)

SpecFilter == Init /\ [][NextFilter]_vars

(***************************************************************************)
(* Properties.                                                             *)
(***************************************************************************)
\* s holds c as a substring, letter case ignored (plain text, no pattern).
ContainsIgnoreCase(s, c) ==
    \E i \in 1..(Len(s) + 1) :
        /\ i + Len(c) - 1 <= Len(s)
        /\ \A j \in 1..Len(c) : Lower(c[j]) = Lower(s[i + j - 1])

InResult(rows, i) == \E k \in 1..Len(rows) : rows[k].idx = i

RecommendRan == last_action = "recommend"

\* C1: with non-empty selections, a record is in the filtered result of the
\* recommendation action iff every selected goal's flag is "Yes" and its
\* target-cash-crops field holds at least one selected crop name as a
\* case-insensitive substring.
C1_FilterIffSubstring ==
    (RecommendRan /\ filter_done) =>
        \A i \in 1..Len(df) :
            InResult(filtered, i) <=>
                /\ \A g \in Range(selected_goals) : df[i].flags[g] = "Yes"
                /\ \E c \in Range(selected_cash_crops) : ContainsIgnoreCase(df[i].crops, c)

\* C2: the filtered result is an ordered subsequence of the table: every
\* record of it is a record of the table, none occurs more often than in the
\* table, and the records keep the table's relative order.
C2_OrderedSubsequence ==
    filter_done =>
        /\ \A k \in 1..Len(filtered) :
              /\ filtered[k].idx \in 1..Len(df0)
              /\ filtered[k] = df0[filtered[k].idx]
        /\ \A k, l \in 1..Len(filtered) : k < l => filtered[k].idx < filtered[l].idx
        /\ dataframe \in {<<>>, filtered}

C2_Witness == RecommendRan /\ filter_done /\ Len(filtered) = 2 /\ dataframe = filtered

\* C3: a recommendation action with an empty goal selection or an empty crop
\* selection ends in the warning only: the filter is not run, the service is
\* not called, and the stored recommendation text is unchanged.
C3_EmptySelectionWarnsOnly ==
    [][ (last_action' = "recommend" /\ (selected_goals = <<>> \/ selected_cash_crops = <<>>))
            => /\ outcome' = "warning"
               /\ message' = WarningMessage
               /\ ~filter_done'
               /\ dataframe' = <<>>
               /\ service_calls' = 0
               /\ service_reply' = NoReply
               /\ ai_response' = ai_response ]_vars

C3_Witness ==
    /\ RecommendRan /\ outcome = "warning"
    /\ selected_goals # <<>> /\ selected_cash_crops = <<>>
    /\ ai_response # <<>>

\* C4: when the completion service raises a fault, the action ends by showing
\* an error message that holds the fault's description, the service was
\* called once (no retry), the page still accepts actions, and the stored
\* recommendation text is what it was before the action.
C4_ServiceFaultReported ==
    /\ [][ (last_action' = "recommend" /\ service_reply'.kind = "fault")
              => /\ outcome' = "error"
                 /\ message'.level = "error"
                 /\ service_reply'.fault \in Range(message'.text)
                 /\ service_calls' = 1
                 /\ ai_response' = ai_response ]_vars
    /\ [](outcome = "error" => ENABLED GetRecommendations)

C4_Witness == RecommendRan /\ outcome = "error" /\ ai_response # <<>>

C6_SlotWrittenOnlyOnSuccess ==
    [][ /\ ai_response' # ai_response
            => /\ last_action' = "recommend"
               /\ outcome' = "text"
               /\ service_reply'.kind = "text"
               /\ ai_response' = service_reply'.text
        /\ (last_action' = "recommend" /\ outcome' = "text")
            => ai_response' = service_reply'.text
        /\ spoken'.said => last_action' = "replay" ]_vars

C6_Witness ==
    /\ last_action = "replay" /\ spoken.said
    /\ ai_response # <<>> /\ spoken.text = ai_response

\* C7: the filter block run on its own applies no goal restriction for an
\* empty goal selection and returns the empty sequence for an empty crop
\* selection.
C7_EmptySelectionsInFilter ==
    (last_action = "filter" /\ filter_done) =>
        /\ selected_goals = <<>> =>
               filtered = MaskRows(df0, CropMask(df0, crop_pattern(selected_cash_crops)))
        /\ selected_cash_crops = <<>> => filtered = <<>>

\* C8: no action changes the loaded table, so whenever the filter runs its
\* ordered output is the one the table as loaded gives for the selections.
C8_TableNeverMutated ==
    /\ df = df0
    /\ filter_done => filtered = FilterEngine(df0, selected_goals, selected_cash_crops)

C8_Witness ==
    /\ RecommendRan /\ filter_done
    /\ filtered # <<>> /\ Len(filtered) < Len(df0)

\* C9: the replay action is offered exactly when the stored text is
\* non-empty; performing it speaks that stored text, calls the service zero
\* times and leaves the stored text as it was.
C9_ReplaySpeaksStoredText ==
    /\ replay_offered <=> ai_response # <<>>
    /\ last_action = "replay" =>
           /\ spoken = [said |-> TRUE, text |-> ai_response]
           /\ service_calls = 0

\* C10: every recommendation action ends in exactly one of four outcomes
\* (warning, no match, recommendation text, service error); the service is
\* called once in the last two and not at all in the first two, and the
\* matching rows are displayed only in the last two.
C10_FourOutcomes ==
    RecommendRan =>
        /\ outcome \in {"warning", "nomatch", "text", "error"}
        /\ outcome \in {"text", "error"} => (service_calls = 1 /\ dataframe # <<>>)
        /\ outcome \in {"warning", "nomatch"} => (service_calls = 0 /\ dataframe = <<>>)

====
